---------------------------- MODULE Spec2Model ----------------------------
(***************************************************************************)
(* Topology terms (core/src/sys/connect.rs) and the interaction reader     *)
(* (io/interactions.rs) of lumol.                                          *)
(*                                                                         *)
(* Two specifications share the variables:                                 *)
(*   SpecConnect  the constructors Bond::new, Angle::new, Dihedral::new    *)
(*                applied to every tuple of small particle indices;        *)
(*   Spec         read_interactions_string run on a bounded family of      *)
(*                YAML documents, one loop iteration per step.             *)
(***************************************************************************)
EXTENDS Integers, Sequences, FiniteSets, TLC

VARIABLES term,     \* connect.rs: the last constructor call and what it returned
          doc,      \* interactions.rs: the parsed YAML document
          system,   \* interactions.rs: the System being filled
          pc,       \* section read_interactions_string is in
          idx,      \* index of the next record (or charge entry) of that section
          node,     \* the record the last loop iteration looked at
          result    \* what read_interactions_string returned, if it did

vars == <<term, doc, system, pc, idx, node, result>>

readerVars == <<doc, system, pc, idx, node, result>>

(***************************************************************************)
(* Bounds                                                                  *)
(***************************************************************************)
MaxIndex == 3       \* particle indices are 0..MaxIndex

(***************************************************************************)
(* core/src/sys/connect.rs                                                 *)
(***************************************************************************)
min(a, b) == IF a <= b THEN a ELSE b

max(a, b) == IF a >= b THEN a ELSE b

\* a failed assert! : the constructor panics and returns no value
Aborted == [type |-> "panic"]

\* Bond::new without the min/max: the indices stay in argument order
Bond_new_unordered(first, second) ==
    IF first = second THEN Aborted
    ELSE [type |-> "Bond", i |-> first, j |-> second]

Bond_new(first, second) ==
    IF first = second THEN Aborted
    ELSE [type |-> "Bond", i |-> min(first, second), j |-> max(first, second)]

\* Angle::new without the min/max on the two ends
Angle_new_unordered(first, second, third) ==
    IF first = second \/ first = third \/ second = third THEN Aborted
    ELSE [type |-> "Angle", i |-> first, j |-> second, k |-> third]

Angle_new(first, second, third) ==
    IF first = second \/ first = third \/ second = third THEN Aborted
    ELSE [type |-> "Angle", i |-> min(first, third), j |-> second,
          k |-> max(first, third)]

\* Dihedral::new with one assert more: first != fourth
Dihedral_new_ends_distinct(first, second, third, fourth) ==
    IF first = second \/ second = third \/ third = fourth \/ first = fourth
    THEN Aborted
    ELSE IF max(first, second) < max(third, fourth)
         THEN [type |-> "Dihedral", i |-> first, j |-> second,
               k |-> third, m |-> fourth]
         ELSE [type |-> "Dihedral", i |-> fourth, j |-> third,
               k |-> second, m |-> first]

Dihedral_new(first, second, third, fourth) ==
    IF first = second \/ second = third \/ third = fourth THEN Aborted
    ELSE IF max(first, second) < max(third, fourth)
         THEN [type |-> "Dihedral", i |-> first, j |-> second,
               k |-> third, m |-> fourth]
         ELSE [type |-> "Dihedral", i |-> fourth, j |-> third,
               k |-> second, m |-> first]

Indices == 0..MaxIndex

NoTerm == [call |-> "none", args |-> <<>>, value |-> Aborted]

NewBond ==
    /\ \E a, b \in Indices :
         term' = [call |-> "Bond::new", args |-> <<a, b>>,
                  value |-> Bond_new(a, b)]
    /\ UNCHANGED readerVars

NewAngle ==
    /\ \E a, b, c \in Indices :
         term' = [call |-> "Angle::new", args |-> <<a, b, c>>,
                  value |-> Angle_new(a, b, c)]
    /\ UNCHANGED readerVars

NewDihedral ==
    /\ \E a, b, c, d \in Indices :
         term' = [call |-> "Dihedral::new", args |-> <<a, b, c, d>>,
                  value |-> Dihedral_new(a, b, c, d)]
    /\ UNCHANGED readerVars


(***************************************************************************)
(* Strings are sequences of ASCII codes, so that str::to_lowercase is      *)
(* computed and not assumed.  These are the string literals of             *)
(* io/interactions.rs.                                                     *)
(***************************************************************************)
Str_harmonic == <<104, 97, 114, 109, 111, 110, 105, 99>>  \* "harmonic"

Str_lennard_jones == <<108, 101, 110, 110, 97, 114, 100, 45, 106, 111, 110, 101, 115>>  \* "lennard-jones"

Str_lennardjones == <<108, 101, 110, 110, 97, 114, 100, 106, 111, 110, 101, 115>>  \* "lennardjones"

Str_null == <<110, 117, 108, 108>>  \* "null"

Str_nullpotential == <<110, 117, 108, 108, 112, 111, 116, 101, 110, 116, 105, 97, 108>>  \* "nullpotential"

Str_cosine_harmonic == <<99, 111, 115, 105, 110, 101, 45, 104, 97, 114, 109, 111, 110, 105, 99>>  \* "cosine-harmonic"

Str_cosineharmonic == <<99, 111, 115, 105, 110, 101, 104, 97, 114, 109, 111, 110, 105, 99>>  \* "cosineharmonic"

Str_torsion == <<116, 111, 114, 115, 105, 111, 110>>  \* "torsion"

Str_wolf == <<119, 111, 108, 102>>  \* "wolf"

Str_ewald == <<101, 119, 97, 108, 100>>  \* "ewald"

Str_none == <<110, 111, 110, 101>>  \* "none"

Str_intramolecular == <<105, 110, 116, 114, 97, 109, 111, 108, 101, 99, 117, 108, 97, 114>>  \* "intramolecular"

Str_intermolecular == <<105, 110, 116, 101, 114, 109, 111, 108, 101, 99, 117, 108, 97, 114>>  \* "intermolecular"

Str_exclude12 == <<101, 120, 99, 108, 117, 100, 101, 49, 50>>  \* "exclude12"

Str_exclude13 == <<101, 120, 99, 108, 117, 100, 101, 49, 51>>  \* "exclude13"

Str_exclude14 == <<101, 120, 99, 108, 117, 100, 101, 49, 52>>  \* "exclude14"

Str_scale14 == <<115, 99, 97, 108, 101, 49, 52>>  \* "scale14"

Str_cutoff == <<99, 117, 116, 111, 102, 102>>  \* "cutoff"

Str_table == <<116, 97, 98, 108, 101>>  \* "table"

\* char::to_lowercase on an ASCII code: 'A'..'Z' (65..90) move to 'a'..'z'
to_lowercase_char(c) == IF c \in 65..90 THEN c + 32 ELSE c

\* str::to_lowercase
RECURSIVE to_lowercase(_)
to_lowercase(s) ==
    IF s = <<>> THEN <<>>
    ELSE <<to_lowercase_char(Head(s))>> \o to_lowercase(Tail(s))

\* format!("{}", n) for an unsigned integer: its decimal digits
RECURSIVE Display(_)
Display(n) == IF n < 10 THEN <<48 + n>> ELSE Display(n \div 10) \o <<48 + (n % 10)>>

(***************************************************************************)
(* Yaml values (yaml-rust), as the reader uses them.  Real values are in   *)
(* tenths: Real(8) is the YAML scalar 0.8.                                 *)
(***************************************************************************)
BadValue == [t |-> "bad"]

YString(s) == [t |-> "str", s |-> s]

YReal(x) == [t |-> "real", x |-> x]

YInteger(n) == [t |-> "int", n |-> n]

YArray(a) == [t |-> "vec", a |-> a]

\* a hash the reader indexes by key: a function from key to node
YHash(h) == [t |-> "hash", h |-> h]

\* a hash the reader iterates: the sequence of its <<key, value>> entries
YHashEntries(s) == [t |-> "hash", entries |-> s]

Some(x) == [some |-> TRUE, v |-> x]

None == [some |-> FALSE]

\* node[key]: BadValue for a missing key or a node that is no hash
Get(n, key) ==
    IF n.t = "hash"
    THEN IF key \in DOMAIN n.h THEN n.h[key] ELSE BadValue
    ELSE BadValue

as_vec(n) == IF n.t = "vec" THEN Some(n.a) ELSE None

as_str(n) == IF n.t = "str" THEN Some(n.s) ELSE None

as_f64(n) == IF n.t = "real" THEN Some(n.x) ELSE None

as_i64(n) == IF n.t = "int" THEN Some(n.n) ELSE None

is_hash(n) == n.t = "hash"

(***************************************************************************)
(* Result and Error                                                        *)
(***************************************************************************)
Ok(x) == [ok |-> TRUE, v |-> x]

Err(e) == [ok |-> FALSE, err |-> e]

\* Error::from(&str) and Error::from(String): text is the message with {}
\* where arg, the formatted argument, goes
Config(text, arg) == [kind |-> "Config", text |-> text, arg |-> arg]

\* Error::from(UnitParsingError)
UnitParsing == [kind |-> "UnitParsing"]

\* units::from_str: a quantity in internal units (tenths), or a unit
\* parsing error
Str_3_4_A == <<51, 46, 52, 32, 65>>  \* "3.4 A"

Str_10_A == <<49, 48, 32, 65>>  \* "10 A"

units_from_str(s) ==
    IF s = Str_3_4_A THEN Ok(34)
    ELSE IF s = Str_10_A THEN Ok(100)
    ELSE Err(UnitParsing)

(***************************************************************************)
(* io/interactions.rs: the FromYaml implementations                        *)
(***************************************************************************)
NullPotential_from_yaml(n) == Ok([type |-> "NullPotential"])

Harmonic_from_yaml(n) ==
    IF as_str(Get(n, "k")).some /\ as_str(Get(n, "x0")).some
    THEN LET k  == units_from_str(as_str(Get(n, "k")).v)
             x0 == units_from_str(as_str(Get(n, "x0")).v)
         IN  IF ~k.ok THEN Err(k.err)
             ELSE IF ~x0.ok THEN Err(x0.err)
             ELSE Ok([type |-> "Harmonic", k |-> k.v, x0 |-> x0.v])
    ELSE Err(Config("Missing 'k' or 'x0' in harmonic potential", <<>>))

LennardJones_from_yaml(n) ==
    IF as_str(Get(n, "sigma")).some /\ as_str(Get(n, "epsilon")).some
    THEN LET sigma   == units_from_str(as_str(Get(n, "sigma")).v)
             epsilon == units_from_str(as_str(Get(n, "epsilon")).v)
         IN  IF ~sigma.ok THEN Err(sigma.err)
             ELSE IF ~epsilon.ok THEN Err(epsilon.err)
             ELSE Ok([type |-> "LennardJones", sigma |-> sigma.v,
                      epsilon |-> epsilon.v])
    ELSE Err(Config("Missing 'sigma' or 'espilon' in Lennard-Jones potential", <<>>))

CosineHarmonic_from_yaml(n) ==
    IF as_str(Get(n, "k")).some /\ as_str(Get(n, "x0")).some
    THEN LET k  == units_from_str(as_str(Get(n, "k")).v)
             x0 == units_from_str(as_str(Get(n, "x0")).v)
         IN  IF ~k.ok THEN Err(k.err)
             ELSE IF ~x0.ok THEN Err(x0.err)
             ELSE Ok([type |-> "CosineHarmonic", k |-> k.v, x0 |-> x0.v])
    ELSE Err(Config("Missing 'k' or 'x0' in cosine harmonic potential", <<>>))

\* `n as usize` is modelled for n >= 0 only: the documents below give no
\* negative multiplicity
Torsion_from_yaml(n) ==
    IF as_i64(Get(n, "n")).some /\ as_str(Get(n, "k")).some
       /\ as_str(Get(n, "delta")).some
    THEN LET k     == units_from_str(as_str(Get(n, "k")).v)
             delta == units_from_str(as_str(Get(n, "delta")).v)
         IN  IF ~k.ok THEN Err(k.err)
             ELSE IF ~delta.ok THEN Err(delta.err)
             ELSE Ok([type |-> "Torsion", n |-> as_i64(Get(n, "n")).v,
                      k |-> k.v, delta |-> delta.v])
    ELSE Err(Config("Missing 'n', 'k' or 'delta' in torsion potential", <<>>))

CutoffComputation_from_yaml(n, potential) ==
    IF as_str(Get(n, "cutoff")).some
    THEN LET cutoff == units_from_str(as_str(Get(n, "cutoff")).v)
         IN  IF ~cutoff.ok THEN Err(cutoff.err)
             ELSE Ok([type |-> "CutoffComputation", potential |-> potential,
                      cutoff |-> cutoff.v])
    ELSE Err(Config("Missing 'cutoff' parameter in cutoff computation", <<>>))

TableComputation_from_yaml(n, potential) ==
    IF as_i64(Get(n, "n")).some /\ as_str(Get(n, "max")).some
    THEN LET max_ == units_from_str(as_str(Get(n, "max")).v)
         IN  IF ~max_.ok THEN Err(max_.err)
             ELSE Ok([type |-> "TableComputation", potential |-> potential,
                      n |-> as_i64(Get(n, "n")).v, max |-> max_.v])
    ELSE Err(Config("Missing 'max' or 'n' parameter in cutoff computation", <<>>))

Wolf_from_yaml(n) ==
    IF as_str(Get(n, "cutoff")).some
    THEN LET cutoff == units_from_str(as_str(Get(n, "cutoff")).v)
         IN  IF ~cutoff.ok THEN Err(cutoff.err)
             ELSE Ok([type |-> "Wolf", cutoff |-> cutoff.v])
    ELSE Err(Config("Missing 'cutoff' parameter in Wolf potential", <<>>))

\* Ewald::from_yaml without its test of the sign of kmax
Ewald_from_yaml_any_kmax(n) ==
    IF as_str(Get(n, "cutoff")).some /\ as_i64(Get(n, "kmax")).some
    THEN LET cutoff == units_from_str(as_str(Get(n, "cutoff")).v)
             kmax   == as_i64(Get(n, "kmax")).v
         IN  IF ~cutoff.ok THEN Err(cutoff.err)
             ELSE Ok([type |-> "Ewald", cutoff |-> cutoff.v, kmax |-> kmax])
    ELSE Err(Config("Missing 'cutoff' or 'kmax' parameter in Ewald potential", <<>>))

Ewald_from_yaml(n) ==
    IF as_str(Get(n, "cutoff")).some /\ as_i64(Get(n, "kmax")).some
    THEN LET cutoff == units_from_str(as_str(Get(n, "cutoff")).v)
             kmax   == as_i64(Get(n, "kmax")).v
         IN  IF ~cutoff.ok THEN Err(cutoff.err)
             ELSE IF kmax < 0
             THEN Err(Config("'kmax' can not be negative in Ewald potential", <<>>))
             ELSE Ok([type |-> "Ewald", cutoff |-> cutoff.v, kmax |-> kmax])
    ELSE Err(Config("Missing 'cutoff' or 'kmax' parameter in Ewald potential", <<>>))

(***************************************************************************)
(* io/interactions.rs: dispatch on the "type" string                       *)
(***************************************************************************)
\* read_pair_potential with one spelling of each type only
read_pair_potential_one_spelling(n) ==
    IF ~as_str(Get(n, "type")).some
    THEN Err(Config("Missing 'type' parameter in pair potential", <<>>))
    ELSE LET typ == to_lowercase(as_str(Get(n, "type")).v)
         IN  IF typ = Str_harmonic THEN Harmonic_from_yaml(n)
             ELSE IF typ = Str_lennard_jones THEN LennardJones_from_yaml(n)
             ELSE IF typ = Str_null THEN NullPotential_from_yaml(n)
             ELSE Err(Config("Unknown potential type '{}'", typ))

read_pair_potential(n) ==
    IF ~as_str(Get(n, "type")).some
    THEN Err(Config("Missing 'type' parameter in pair potential", <<>>))
    ELSE LET typ == to_lowercase(as_str(Get(n, "type")).v)
         IN  IF typ = Str_harmonic THEN Harmonic_from_yaml(n)
             ELSE IF typ = Str_lennard_jones \/ typ = Str_lennardjones
             THEN LennardJones_from_yaml(n)
             ELSE IF typ = Str_null \/ typ = Str_nullpotential
             THEN NullPotential_from_yaml(n)
             ELSE Err(Config("Unknown potential type '{}'", typ))

\* read_restriction with a scaling out of range brought back to 0 or 1
read_restriction_clamped(n) ==
    IF ~as_str(Get(n, "type")).some
    THEN Err(Config("Missing 'type' parameter in restriction section", <<>>))
    ELSE LET typ == to_lowercase(as_str(Get(n, "type")).v)
         IN  IF typ = Str_none THEN Ok([r |-> "None"])
             ELSE IF typ = Str_intramolecular THEN Ok([r |-> "IntraMolecular"])
             ELSE IF typ = Str_intermolecular THEN Ok([r |-> "InterMolecular"])
             ELSE IF typ = Str_exclude12 THEN Ok([r |-> "Exclude12"])
             ELSE IF typ = Str_exclude13 THEN Ok([r |-> "Exclude13"])
             ELSE IF typ = Str_exclude14 THEN Ok([r |-> "Exclude14"])
             ELSE IF typ = Str_scale14
             THEN IF as_f64(Get(n, "scaling")).some
                  THEN LET scaling == as_f64(Get(n, "scaling")).v
                       IN  Ok([r |-> "Scale14",
                               scaling |-> max(0, min(scaling, 10))])
                  ELSE Err(Config("Missing 'scaling' parameter in Scale14 restriction", <<>>))
             ELSE Err(Config("Unknown potential type '{}'", typ))

read_restriction(n) ==
    IF ~as_str(Get(n, "type")).some
    THEN Err(Config("Missing 'type' parameter in restriction section", <<>>))
    ELSE LET typ == to_lowercase(as_str(Get(n, "type")).v)
         IN  IF typ = Str_none THEN Ok([r |-> "None"])
             ELSE IF typ = Str_intramolecular THEN Ok([r |-> "IntraMolecular"])
             ELSE IF typ = Str_intermolecular THEN Ok([r |-> "InterMolecular"])
             ELSE IF typ = Str_exclude12 THEN Ok([r |-> "Exclude12"])
             ELSE IF typ = Str_exclude13 THEN Ok([r |-> "Exclude13"])
             ELSE IF typ = Str_exclude14 THEN Ok([r |-> "Exclude14"])
             ELSE IF typ = Str_scale14
             THEN IF as_f64(Get(n, "scaling")).some
                  THEN LET scaling == as_f64(Get(n, "scaling")).v
                       IN  IF 0 <= scaling /\ scaling <= 10
                           THEN Ok([r |-> "Scale14", scaling |-> scaling])
                           ELSE Err(Config("Scaling parameter for Scale14 restriction must be between 0 and 1", <<>>))
                  ELSE Err(Config("Missing 'scaling' parameter in Scale14 restriction", <<>>))
             ELSE Err(Config("Unknown potential type '{}'", typ))

read_angle_potential(n) ==
    IF ~as_str(Get(n, "type")).some
    THEN Err(Config("Missing 'type' parameter in angle potential", <<>>))
    ELSE LET typ == to_lowercase(as_str(Get(n, "type")).v)
         IN  IF typ = Str_harmonic THEN Harmonic_from_yaml(n)
             ELSE IF typ = Str_cosine_harmonic \/ typ = Str_cosineharmonic
             THEN CosineHarmonic_from_yaml(n)
             ELSE IF typ = Str_null THEN NullPotential_from_yaml(n)
             ELSE Err(Config("Unknown potential type '{}'", typ))

read_dihedral_potential(n) ==
    IF ~as_str(Get(n, "type")).some
    THEN Err(Config("Missing 'type' parameter in dihedral potential", <<>>))
    ELSE LET typ == to_lowercase(as_str(Get(n, "type")).v)
         IN  IF typ = Str_harmonic THEN Harmonic_from_yaml(n)
             ELSE IF typ = Str_cosine_harmonic \/ typ = Str_cosineharmonic
             THEN CosineHarmonic_from_yaml(n)
             ELSE IF typ = Str_torsion THEN Torsion_from_yaml(n)
             ELSE IF typ = Str_null THEN NullPotential_from_yaml(n)
             ELSE Err(Config("Unknown potential type '{}'", typ))

read_pair_computation(n, potential) ==
    IF ~as_str(Get(n, "type")).some
    THEN Err(Config("Missing 'type' parameter for potential computation", <<>>))
    ELSE LET typ == to_lowercase(as_str(Get(n, "type")).v)
         IN  IF typ = Str_cutoff THEN CutoffComputation_from_yaml(n, potential)
             ELSE IF typ = Str_table THEN TableComputation_from_yaml(n, potential)
             ELSE Err(Config("Unknown computation type '{}'", typ))

read_coulomb_potential(n) ==
    IF ~as_str(Get(n, "type")).some
    THEN Err(Config("Missing 'type' parameter for coulomb section", <<>>))
    ELSE LET typ == to_lowercase(as_str(Get(n, "type")).v)
         IN  IF typ = Str_wolf THEN Wolf_from_yaml(n)
             ELSE IF typ = Str_ewald THEN Ewald_from_yaml(n)
             ELSE Err(Config("Unknown coulomb solver type '{}'", typ))

(***************************************************************************)
(* The System, at the boundary the reader uses: the registration calls it  *)
(* received, in order, and its particles.                                  *)
(***************************************************************************)
add_pair_interaction(sys, a, b, potential) ==
    [sys EXCEPT !.interactions = Append(@,
        [fn |-> "add_pair_interaction", atoms |-> <<a, b>>,
         potential |-> potential])]

add_pair_interaction_with_restriction(sys, a, b, potential, restriction) ==
    [sys EXCEPT !.interactions = Append(@,
        [fn |-> "add_pair_interaction_with_restriction", atoms |-> <<a, b>>,
         potential |-> potential, restriction |-> restriction])]

add_bond_interaction(sys, a, b, potential) ==
    [sys EXCEPT !.interactions = Append(@,
        [fn |-> "add_bond_interaction", atoms |-> <<a, b>>,
         potential |-> potential])]

add_angle_interaction(sys, a, b, c, potential) ==
    [sys EXCEPT !.interactions = Append(@,
        [fn |-> "add_angle_interaction", atoms |-> <<a, b, c>>,
         potential |-> potential])]

add_dihedral_interaction(sys, a, b, c, d, potential) ==
    [sys EXCEPT !.interactions = Append(@,
        [fn |-> "add_dihedral_interaction", atoms |-> <<a, b, c, d>>,
         potential |-> potential])]

set_coulomb_interaction(sys, potential) ==
    [sys EXCEPT !.interactions = Append(@,
        [fn |-> "set_coulomb_interaction", potential |-> potential])]

\* CoulombicPotential::set_restriction
set_restriction(potential, restriction) ==
    [f \in DOMAIN potential \cup {"restriction"} |->
        IF f = "restriction" THEN restriction ELSE potential[f]]

(***************************************************************************)
(* io/interactions.rs: one iteration of each loop.  An iteration gives the *)
(* Result it ends with (Err leaves the function through try!) and the      *)
(* System as it leaves it.                                                 *)
(***************************************************************************)
Iter(res, sys) == [result |-> res, system |-> sys]

\* read_pairs, from `atoms` to `computation`: what one record gives to
\* the registration
read_pairs_record(n) ==
    LET atoms == as_vec(Get(n, "atoms")) IN
    IF ~atoms.some
    THEN Err(Config("Missing 'atoms' section in pair potential", <<>>))
    ELSE IF Len(atoms.v) # 2
    THEN Err(Config("Wrong size for 'atoms' section in pair potentials. Should be 2, is {}",
                    Display(Len(atoms.v))))
    ELSE IF ~as_str(atoms.v[1]).some
    THEN Err(Config("The first atom name is not a string in pair potential", <<>>))
    ELSE IF ~as_str(atoms.v[2]).some
    THEN Err(Config("The second atom name is not a string in pair potential", <<>>))
    ELSE
    LET read == read_restriction(Get(n, "restriction"))
        restriction == IF is_hash(Get(n, "restriction"))
                       THEN IF read.ok THEN Ok(Some(read.v)) ELSE read
                       ELSE Ok(None)
    IN
    IF ~restriction.ok THEN restriction
    ELSE
    LET potential == read_pair_potential(n) IN
    IF ~potential.ok THEN potential
    ELSE
    LET computed == IF is_hash(Get(n, "computation"))
                    THEN read_pair_computation(Get(n, "computation"), potential.v)
                    ELSE potential
    IN
    IF ~computed.ok THEN computed
    ELSE Ok([a |-> as_str(atoms.v[1]).v, b |-> as_str(atoms.v[2]).v,
             restriction |-> restriction.v, potential |-> computed.v])

\* read_pairs_iter without its test of pair_potentials: every record goes
\* to the pair interactions
read_pairs_iter_all_pairs(sys, n, pair_potentials) ==
    LET record == read_pairs_record(n) IN
    IF ~record.ok THEN Iter(record, sys)
    ELSE IF record.v.restriction.some
    THEN Iter(Ok(<<>>), add_pair_interaction_with_restriction(
              sys, record.v.a, record.v.b, record.v.potential,
              record.v.restriction.v))
    ELSE Iter(Ok(<<>>), add_pair_interaction(
              sys, record.v.a, record.v.b, record.v.potential))

\* read_pairs_iter with its two tests the other way round: the restriction
\* first, pair_potentials second
read_pairs_iter_restriction_first(sys, n, pair_potentials) ==
    LET record == read_pairs_record(n) IN
    IF ~record.ok THEN Iter(record, sys)
    ELSE IF record.v.restriction.some
    THEN Iter(Ok(<<>>), add_pair_interaction_with_restriction(
              sys, record.v.a, record.v.b, record.v.potential,
              record.v.restriction.v))
    ELSE IF pair_potentials
    THEN Iter(Ok(<<>>), add_pair_interaction(
              sys, record.v.a, record.v.b, record.v.potential))
    ELSE Iter(Ok(<<>>), add_bond_interaction(
              sys, record.v.a, record.v.b, record.v.potential))

\* the body of the `for node in pairs` loop of read_pairs
read_pairs_iter(sys, n, pair_potentials) ==
    LET record == read_pairs_record(n) IN
    IF ~record.ok THEN Iter(record, sys)
    ELSE IF pair_potentials
    THEN IF record.v.restriction.some
         THEN Iter(Ok(<<>>), add_pair_interaction_with_restriction(
                   sys, record.v.a, record.v.b, record.v.potential,
                   record.v.restriction.v))
         ELSE Iter(Ok(<<>>), add_pair_interaction(
                   sys, record.v.a, record.v.b, record.v.potential))
    ELSE Iter(Ok(<<>>), add_bond_interaction(
              sys, record.v.a, record.v.b, record.v.potential))

\* read_angles_iter with the size of `atoms` tested after the potential
\* is read
read_angles_iter_size_last(sys, n) ==
    LET atoms == as_vec(Get(n, "atoms")) IN
    IF ~atoms.some
    THEN Iter(Err(Config("Missing 'atoms' section in angle potential", <<>>)), sys)
    ELSE
    LET potential == read_angle_potential(n) IN
    IF ~potential.ok THEN Iter(potential, sys)
    ELSE IF Len(atoms.v) # 3
    THEN Iter(Err(Config("Wrong size for 'atoms' section in angle potentials. Should be 3, is {}",
                         Display(Len(atoms.v)))), sys)
    ELSE IF ~as_str(atoms.v[1]).some
    THEN Iter(Err(Config("The first atom name is not a string in angle potential", <<>>)), sys)
    ELSE IF ~as_str(atoms.v[2]).some
    THEN Iter(Err(Config("The second atom name is not a string in angle potential", <<>>)), sys)
    ELSE IF ~as_str(atoms.v[3]).some
    THEN Iter(Err(Config("The third atom name is not a string in angle potential", <<>>)), sys)
    ELSE Iter(Ok(<<>>), add_angle_interaction(sys, as_str(atoms.v[1]).v,
                  as_str(atoms.v[2]).v, as_str(atoms.v[3]).v, potential.v))

\* the body of the `for potential in angles` loop of read_angles
read_angles_iter(sys, n) ==
    LET atoms == as_vec(Get(n, "atoms")) IN
    IF ~atoms.some
    THEN Iter(Err(Config("Missing 'atoms' section in angle potential", <<>>)), sys)
    ELSE IF Len(atoms.v) # 3
    THEN Iter(Err(Config("Wrong size for 'atoms' section in angle potentials. Should be 3, is {}",
                         Display(Len(atoms.v)))), sys)
    ELSE IF ~as_str(atoms.v[1]).some
    THEN Iter(Err(Config("The first atom name is not a string in angle potential", <<>>)), sys)
    ELSE IF ~as_str(atoms.v[2]).some
    THEN Iter(Err(Config("The second atom name is not a string in angle potential", <<>>)), sys)
    ELSE IF ~as_str(atoms.v[3]).some
    THEN Iter(Err(Config("The third atom name is not a string in angle potential", <<>>)), sys)
    ELSE
    LET potential == read_angle_potential(n) IN
    IF ~potential.ok THEN Iter(potential, sys)
    ELSE Iter(Ok(<<>>), add_angle_interaction(sys, as_str(atoms.v[1]).v,
                  as_str(atoms.v[2]).v, as_str(atoms.v[3]).v, potential.v))

\* the body of the `for potential in dihedrals` loop of read_dihedrals
read_dihedrals_iter(sys, n) ==
    LET atoms == as_vec(Get(n, "atoms")) IN
    IF ~atoms.some
    THEN Iter(Err(Config("Missing 'atoms' section in dihedral potential", <<>>)), sys)
    ELSE IF Len(atoms.v) # 4
    THEN Iter(Err(Config("Wrong size for 'atoms' section in dihedral potentials. Should be 4, is {}",
                         Display(Len(atoms.v)))), sys)
    ELSE IF ~as_str(atoms.v[1]).some
    THEN Iter(Err(Config("The first atom name is not a string in dihedral potential", <<>>)), sys)
    ELSE IF ~as_str(atoms.v[2]).some
    THEN Iter(Err(Config("The second atom name is not a string in dihedral potential", <<>>)), sys)
    ELSE IF ~as_str(atoms.v[3]).some
    THEN Iter(Err(Config("The third atom name is not a string in dihedral potential", <<>>)), sys)
    ELSE IF ~as_str(atoms.v[4]).some
    THEN Iter(Err(Config("The fourth atom name is not a string in dihedral potential", <<>>)), sys)
    ELSE
    LET potential == read_dihedral_potential(n) IN
    IF ~potential.ok THEN Iter(potential, sys)
    ELSE Iter(Ok(<<>>), add_dihedral_interaction(sys, as_str(atoms.v[1]).v,
                  as_str(atoms.v[2]).v, as_str(atoms.v[3]).v,
                  as_str(atoms.v[4]).v, potential.v))

\* read_coulomb_solver with set_coulomb_interaction called as soon as the
\* solver is read, before the restriction
read_coulomb_solver_install_first(sys, config) ==
    LET potential == read_coulomb_potential(config) IN
    IF ~potential.ok THEN Iter(potential, sys)
    ELSE IF is_hash(Get(config, "restriction"))
    THEN LET restriction == read_restriction(Get(config, "restriction")) IN
         IF ~restriction.ok
         THEN Iter(restriction, set_coulomb_interaction(sys, potential.v))
         ELSE Iter(Ok(<<>>), set_coulomb_interaction(
                  sys, set_restriction(potential.v, restriction.v)))
    ELSE Iter(Ok(<<>>), set_coulomb_interaction(sys, potential.v))

\* read_coulomb up to and including system.set_coulomb_interaction
read_coulomb_solver(sys, config) ==
    LET potential == read_coulomb_potential(config) IN
    IF ~potential.ok THEN Iter(potential, sys)
    ELSE IF is_hash(Get(config, "restriction"))
    THEN LET restriction == read_restriction(Get(config, "restriction")) IN
         IF ~restriction.ok THEN Iter(restriction, sys)
         ELSE Iter(Ok(<<>>), set_coulomb_interaction(
                  sys, set_restriction(potential.v, restriction.v)))
    ELSE Iter(Ok(<<>>), set_coulomb_interaction(sys, potential.v))

\* assign_charges_iter without its test of the name of the particle: the
\* charge goes to every particle
assign_charges_iter_every_particle(sys, entry) ==
    IF as_str(entry[1]).some /\ as_f64(entry[2]).some
    THEN LET name   == as_str(entry[1]).v
             charge == as_f64(entry[2]).v
             n_changed == Len(sys.particles)
         IN  IF n_changed = 0
             THEN Iter(Err(Config("No particle with the name {} was found", name)), sys)
             ELSE Iter(Ok(<<>>),
                       [sys EXCEPT !.particles =
                           [p \in 1..Len(sys.particles) |->
                               [sys.particles[p] EXCEPT !.charge = charge]]])
    ELSE Iter(Err(Config("Bad Yaml format in charges section: {:?}, {:?}", <<>>)), sys)

\* the body of the `for (name, charge) in charges` loop of assign_charges;
\* entry is <<name, charge>>
assign_charges_iter(sys, entry) ==
    IF as_str(entry[1]).some /\ as_f64(entry[2]).some
    THEN LET name   == as_str(entry[1]).v
             charge == as_f64(entry[2]).v
             n_changed == Cardinality({p \in 1..Len(sys.particles) :
                                          sys.particles[p].name = name})
         IN  IF n_changed = 0
             THEN Iter(Err(Config("No particle with the name {} was found", name)), sys)
             ELSE Iter(Ok(<<>>),
                       [sys EXCEPT !.particles =
                           [p \in 1..Len(sys.particles) |->
                               IF sys.particles[p].name = name
                               THEN [sys.particles[p] EXCEPT !.charge = charge]
                               ELSE sys.particles[p]]])
    ELSE Iter(Err(Config("Bad Yaml format in charges section: {:?}, {:?}", <<>>)), sys)

(***************************************************************************)
(* io/interactions.rs: read_interactions_string, one loop iteration per    *)
(* step.  pc is the section being read; when the function returns, pc and  *)
(* idx stay where it returned from.                                        *)
(***************************************************************************)
Running == [state |-> "running"]

Returned(res) ==
    IF res.ok THEN [state |-> "ok"] ELSE [state |-> "err", err |-> res.err]

\* doc["pairs"].as_vec() and the like
Section(name) == as_vec(Get(doc, name))

Records(name) == IF Section(name).some THEN Section(name).v ELSE <<>>

\* one iteration of the loop of a list section; it is the iteration `iter`
\* that differs between the sections
LoopStep(name, iter) ==
    /\ result = Running
    /\ pc = name
    /\ idx < Len(Records(name))
    /\ node' = Records(name)[idx + 1]
    /\ system' = iter.system
    /\ IF iter.result.ok
       THEN idx' = idx + 1 /\ result' = result
       ELSE idx' = idx /\ result' = Returned(iter.result)
    /\ UNCHANGED <<term, doc, pc>>

ReadPairs ==
    /\ pc = "pairs" /\ idx < Len(Records("pairs"))
    /\ LoopStep("pairs", read_pairs_iter(system, Records("pairs")[idx + 1], TRUE))

ReadBonds ==
    /\ pc = "bonds" /\ idx < Len(Records("bonds"))
    /\ LoopStep("bonds", read_pairs_iter(system, Records("bonds")[idx + 1], FALSE))

ReadAngles ==
    /\ pc = "angles" /\ idx < Len(Records("angles"))
    /\ LoopStep("angles", read_angles_iter(system, Records("angles")[idx + 1]))

ReadDihedrals ==
    /\ pc = "dihedrals" /\ idx < Len(Records("dihedrals"))
    /\ LoopStep("dihedrals",
                read_dihedrals_iter(system, Records("dihedrals")[idx + 1]))

\* NextSection with the angles read before the bonds
NextSection_angles_first(name) ==
    CASE name = "pairs" -> "angles"
      [] name = "angles" -> "bonds"
      [] name = "bonds" -> "dihedrals"
      [] name = "dihedrals" -> "coulomb"

NextSection(name) ==
    CASE name = "pairs" -> "bonds"
      [] name = "bonds" -> "angles"
      [] name = "angles" -> "dihedrals"
      [] name = "dihedrals" -> "coulomb"

\* a list section is absent or its loop is over: on to the next section
EndSection ==
    /\ result = Running
    /\ pc \in {"pairs", "bonds", "angles", "dihedrals"}
    /\ idx = Len(Records(pc))
    /\ pc' = NextSection(pc)
    /\ idx' = 0
    /\ UNCHANGED <<term, doc, system, node, result>>

\* the charges of the coulomb record, when read_coulomb gets to them
Charges ==
    IF is_hash(Get(Get(doc, "coulomb"), "charges"))
    THEN Get(Get(doc, "coulomb"), "charges").entries
    ELSE <<>>

\* the coulomb section up to set_coulomb_interaction
ReadCoulomb ==
    /\ result = Running
    /\ pc = "coulomb"
    /\ IF is_hash(Get(doc, "coulomb"))
       THEN LET iter == read_coulomb_solver(system, Get(doc, "coulomb")) IN
            /\ node' = Get(doc, "coulomb")
            /\ system' = iter.system
            /\ IF iter.result.ok
               THEN pc' = "charges" /\ result' = result
               ELSE pc' = pc /\ result' = Returned(iter.result)
       ELSE /\ result' = Returned(Ok(<<>>))
            /\ UNCHANGED <<pc, node, system>>
    /\ idx' = 0
    /\ UNCHANGED <<term, doc>>

\* one iteration of the loop of assign_charges
AssignCharges ==
    /\ result = Running
    /\ pc = "charges"
    /\ idx < Len(Charges)
    /\ LET iter == assign_charges_iter(system, Charges[idx + 1]) IN
       /\ system' = iter.system
       /\ IF iter.result.ok
          THEN idx' = idx + 1 /\ result' = result
          ELSE idx' = idx /\ result' = Returned(iter.result)
    /\ UNCHANGED <<term, doc, pc, node>>

\* no charges, or all assigned: read_coulomb and the function return Ok(())
Return ==
    /\ result = Running
    /\ pc = "charges"
    /\ idx = Len(Charges)
    /\ result' = Returned(Ok(<<>>))
    /\ UNCHANGED <<term, doc, system, pc, idx, node>>

(***************************************************************************)
(* The documents read_interactions_string is run on.  Three families:      *)
(*   RecordInputs   one list section holding one record, the record's      *)
(*                  fields varied independently of each other;             *)
(*   SectionInputs  any combination of sections, each with up to           *)
(*                  MaxRecords records taken from a good and a bad one;    *)
(*   CoulombInputs  a coulomb record alone, its solver, restriction and    *)
(*                  charges varied, on systems of up to MaxParticles       *)
(*                  particles.                                             *)
(***************************************************************************)
MaxRecords == 2     \* records in one section of a document of SectionInputs

MaxTotal == 4       \* records in all list sections of such a document

MaxCharges == 2     \* entries of a charges mapping

MaxParticles == 2   \* particles of a System

\* strings of the documents that are no literal of the reader
In_LennardJones == <<76, 101, 110, 110, 97, 114, 100, 74, 111, 110, 101, 115>>  \* "LennardJones"

In_Harmonic == <<72, 97, 114, 109, 111, 110, 105, 99>>  \* "Harmonic"

In_NullPotential == <<78, 117, 108, 108, 80, 111, 116, 101, 110, 116, 105, 97, 108>>  \* "NullPotential"

In_CosineHarmonic == <<67, 111, 115, 105, 110, 101, 72, 97, 114, 109, 111, 110, 105, 99>>  \* "CosineHarmonic"

In_Torsion == <<84, 111, 114, 115, 105, 111, 110>>  \* "Torsion"

In_morse == <<109, 111, 114, 115, 101>>  \* "morse"

In_Wolf == <<87, 111, 108, 102>>  \* "Wolf"

In_Ewald == <<69, 119, 97, 108, 100>>  \* "Ewald"

In_pppm == <<112, 112, 112, 109>>  \* "pppm"

In_IntraMolecular == <<73, 110, 116, 114, 97, 77, 111, 108, 101, 99, 117, 108, 97, 114>>  \* "IntraMolecular"

In_Exclude13 == <<69, 120, 99, 108, 117, 100, 101, 49, 51>>  \* "Exclude13"

In_Scale14 == <<83, 99, 97, 108, 101, 49, 52>>  \* "Scale14"

In_bonded == <<98, 111, 110, 100, 101, 100>>  \* "bonded"

In_Table == <<84, 97, 98, 108, 101>>  \* "Table"

In_spline == <<115, 112, 108, 105, 110, 101>>  \* "spline"

In_He == <<72, 101>>  \* "He"

In_Ar == <<65, 114>>  \* "Ar"

In_O == <<79>>  \* "O"

In_Na == <<78, 97>>  \* "Na"

In_H == <<72>>  \* "H"

In_3_4_parsec == <<51, 46, 52, 32, 112, 97, 114, 115, 101, 99>>  \* "3.4 parsec"

\* a hash without keys
NoKey == [key \in {} |-> BadValue]

SeqsUpTo(S, n) == UNION {[1..m -> S] : m \in 0..n}

\* atoms: absent, no sequence, one name short, right, one name long, a
\* name that is no string first or last
AtomsOpts(n) ==
    {NoKey, [atoms |-> YString(In_He)]}
    \cup {[atoms |-> YArray([p \in 1..m |-> YString(IF p % 2 = 1 THEN In_He ELSE In_Ar)])] :
            m \in {n - 1, n, n + 1}}
    \cup {[atoms |-> YArray([p \in 1..n |-> IF p = q THEN YInteger(1) ELSE YString(In_Ar)])] :
            q \in {1, n}}

TypeOpts(S) == {NoKey} \cup {[type |-> YString(t)] : t \in S}

PairTypes ==
    {In_LennardJones, Str_lennard_jones, In_Harmonic, Str_null, In_NullPotential,
     In_morse, In_Torsion, In_CosineHarmonic}

AngleTypes ==
    {In_Harmonic, Str_cosine_harmonic, In_CosineHarmonic, Str_null,
     In_NullPotential, In_LennardJones, In_Torsion, In_morse}

DihedralTypes == AngleTypes \cup {Str_torsion}

CoulombTypes == {Str_wolf, In_Wolf, In_Ewald, In_pppm}

\* the parameters of every potential: all there, none there, or with a
\* unit that does not parse
Params(unit) ==
    [k |-> YString(unit), x0 |-> YString(Str_10_A), sigma |-> YString(unit),
     epsilon |-> YString(Str_10_A), delta |-> YString(unit), n |-> YInteger(4)]

ParamOpts == {Params(Str_3_4_A), NoKey, Params(In_3_4_parsec)}

ScalingOpts ==
    {NoKey, [scaling |-> YInteger(1)]}
    \cup {[scaling |-> YReal(x)] : x \in {-1, 0, 8, 10, 11}}

RestrictionOpts ==
    {NoKey, [restriction |-> YString(Str_none)]}
    \cup {[restriction |-> YHash(t)] :
            t \in TypeOpts({Str_none, In_IntraMolecular, Str_intermolecular,
                            Str_exclude12, In_Exclude13, Str_exclude14, In_bonded})}
    \cup {[restriction |-> YHash([type |-> YString(Str_scale14)] @@ x)] :
            x \in ScalingOpts}
    \cup {[restriction |-> YHash([type |-> YString(In_Scale14),
                                  scaling |-> YReal(5)])]}

ComputationOpts ==
    {NoKey,
     [computation |-> YHash([type |-> YString(Str_cutoff), cutoff |-> YString(Str_10_A)])],
     [computation |-> YHash([type |-> YString(Str_cutoff), cutoff |-> YString(In_3_4_parsec)])],
     [computation |-> YHash([type |-> YString(In_Table), n |-> YInteger(5),
                             max |-> YString(Str_10_A)])],
     [computation |-> YHash([type |-> YString(Str_table), numpoints |-> YInteger(5),
                             max |-> YString(Str_10_A)])],
     [computation |-> YHash([type |-> YString(In_spline)])]}

Particle(name) == [name |-> name, charge |-> 0]

TwoParticles == <<Particle(In_O), Particle(In_Na)>>

\* the good and the bad record of each list section
GoodPair ==
    YHash([atoms |-> YArray(<<YString(In_He), YString(In_Ar)>>),
           type |-> YString(In_LennardJones), sigma |-> YString(Str_3_4_A),
           epsilon |-> YString(Str_10_A),
           restriction |-> YHash([type |-> YString(In_Scale14),
                                  scaling |-> YReal(8)])])

BadPair ==
    YHash([atoms |-> YArray(<<YString(In_He), YString(In_Ar), YString(In_He)>>),
           type |-> YString(In_LennardJones), sigma |-> YString(Str_3_4_A),
           epsilon |-> YString(Str_10_A)])

GoodBond ==
    YHash([atoms |-> YArray(<<YString(In_O), YString(In_H)>>),
           type |-> YString(In_Harmonic), k |-> YString(Str_3_4_A),
           x0 |-> YString(Str_10_A)])

BadBond ==
    YHash([atoms |-> YArray(<<YString(In_O), YString(In_H)>>),
           type |-> YString(In_morse)])

GoodAngle ==
    YHash([atoms |-> YArray(<<YString(In_H), YString(In_O), YString(In_H)>>),
           type |-> YString(In_CosineHarmonic), k |-> YString(Str_3_4_A),
           x0 |-> YString(Str_10_A)])

BadAngle ==
    YHash([atoms |-> YArray(<<YString(In_H), YString(In_O), YString(In_H)>>),
           type |-> YString(In_CosineHarmonic), k |-> YString(Str_3_4_A)])

GoodDihedral ==
    YHash([atoms |-> YArray(<<YString(In_H), YString(In_O), YString(In_O),
                              YString(In_H)>>),
           type |-> YString(Str_torsion), k |-> YString(Str_3_4_A),
           delta |-> YString(Str_10_A), n |-> YInteger(4)])

BadDihedral ==
    YHash([atoms |-> YArray(<<YString(In_H), YString(In_O), YString(In_O),
                              YString(In_H)>>),
           type |-> YString(Str_torsion), k |-> YString(In_3_4_parsec),
           delta |-> YString(Str_10_A), n |-> YInteger(4)])

GoodCoulomb ==
    YHash([type |-> YString(Str_wolf), cutoff |-> YString(Str_10_A),
           charges |-> YHashEntries(<<<<YString(In_O), YReal(-18)>>>>)])

BadCoulomb ==
    YHash([type |-> YString(Str_ewald), cutoff |-> YString(Str_10_A),
           kmax |-> YInteger(-1)])

\* a section: absent, or a sequence of up to MaxRecords of the records S
SectionOpts(S) == {None} \cup {Some(YArray(q)) : q \in SeqsUpTo(S, MaxRecords)}

SectionLen(o) == IF o.some THEN Len(o.v.a) ELSE 0

SectionKey(name, o) == IF o.some THEN [key \in {name} |-> o.v] ELSE NoKey

\* coulomb: absent, a good record, a bad one, or the good one in the
\* sequence that the comment of read_interactions shows
CoulombOpts == {None, Some(GoodCoulomb), Some(BadCoulomb), Some(YArray(<<GoodCoulomb>>))}

\* the solver and the restriction of a coulomb record
SolverOpts ==
    {t @@ c @@ k @@ r :
        t \in TypeOpts(CoulombTypes),
        c \in {NoKey, [cutoff |-> YString(Str_10_A)],
               [cutoff |-> YString(In_3_4_parsec)]},
        k \in {NoKey, [kmax |-> YInteger(8)], [kmax |-> YInteger(-1)]},
        r \in {NoKey,
               [restriction |-> YHash([type |-> YString(In_Scale14),
                                       scaling |-> YReal(8)])],
               [restriction |-> YHash([type |-> YString(Str_scale14),
                                       scaling |-> YReal(11)])],
               [restriction |-> YHash([type |-> YString(In_bonded)])]}}

\* the entries a charges mapping is made of: three names, one of them of
\* no particle; a charge that is no real; a key that is no string
ChargeEntries ==
    {<<YString(In_O), YReal(-18)>>, <<YString(In_Na), YReal(9)>>,
     <<YString(In_H), YReal(5)>>, <<YString(In_O), YInteger(-2)>>,
     <<YInteger(1), YReal(9)>>}

\* the keys of a mapping differ
ChargesOpts ==
    {q \in SeqsUpTo(ChargeEntries, MaxCharges) :
        \A x, y \in 1..Len(q) : x # y => q[x][1] # q[y][1]}

Systems == SeqsUpTo({Particle(In_O), Particle(In_Na)}, MaxParticles)

(***************************************************************************)
(* The specifications                                                      *)
(***************************************************************************)
\* a fresh System holding the particles, and document d, before
\* read_interactions_string reads its first section
Start(d, particles) ==
    /\ term = NoTerm
    /\ doc = d
    /\ system = [interactions |-> <<>>, particles |-> particles]
    /\ pc = "pairs"
    /\ idx = 0
    /\ node = BadValue
    /\ result = Running

RecordInputs ==
    \/ \E name \in {"pairs", "bonds"} :
       \E a \in AtomsOpts(2), t \in TypeOpts(PairTypes), q \in ParamOpts,
          r \in RestrictionOpts, c \in ComputationOpts :
            Start(YHash([key \in {name} |-> YArray(<<YHash(a @@ t @@ q @@ r @@ c)>>)]),
                  TwoParticles)
    \/ \E a \in AtomsOpts(3), t \in TypeOpts(AngleTypes), q \in ParamOpts :
            Start(YHash([angles |-> YArray(<<YHash(a @@ t @@ q)>>)]), TwoParticles)
    \/ \E a \in AtomsOpts(4), t \in TypeOpts(DihedralTypes), q \in ParamOpts :
            Start(YHash([dihedrals |-> YArray(<<YHash(a @@ t @@ q)>>)]), TwoParticles)

SectionInputs ==
    \E p \in SectionOpts({GoodPair, BadPair}), b \in SectionOpts({GoodBond, BadBond}),
       a \in SectionOpts({GoodAngle, BadAngle}),
       d \in SectionOpts({GoodDihedral, BadDihedral}), c \in CoulombOpts :
        /\ SectionLen(p) + SectionLen(b) + SectionLen(a) + SectionLen(d) <= MaxTotal
        /\ Start(YHash(SectionKey("pairs", p) @@ SectionKey("bonds", b)
                       @@ SectionKey("angles", a) @@ SectionKey("dihedrals", d)
                       @@ SectionKey("coulomb", c)),
                 TwoParticles)

CoulombInputs ==
    \/ \E s \in SolverOpts :
       \E c \in {NoKey, [charges |-> YHashEntries(<<<<YString(In_Na), YReal(9)>>>>)]} :
            Start(YHash([coulomb |-> YHash(s @@ c)]), TwoParticles)
    \/ \E q \in ChargesOpts, particles \in Systems :
            Start(YHash([coulomb |-> YHash(
                      [type |-> YString(Str_wolf), cutoff |-> YString(Str_10_A),
                       charges |-> YHashEntries(q)])]), particles)
    \/ Start(YHash([coulomb |-> YHash(
                      [type |-> YString(Str_wolf), cutoff |-> YString(Str_10_A),
                       charges |-> YString(In_O)])]), TwoParticles)

Init == RecordInputs \/ SectionInputs \/ CoulombInputs

Next ==
    \/ ReadPairs
    \/ ReadBonds
    \/ ReadAngles
    \/ ReadDihedrals
    \/ EndSection
    \/ ReadCoulomb
    \/ AssignCharges
    \/ Return

Spec == Init /\ [][Next]_vars

\* no document: only the constructors of connect.rs are called
InitConnect ==
    /\ term = NoTerm
    /\ doc = BadValue
    /\ system = [interactions |-> <<>>, particles |-> <<>>]
    /\ pc = "pairs"
    /\ idx = 0
    /\ node = BadValue
    /\ result = Running

NextConnect ==
    \/ NewBond
    \/ NewAngle
    \/ NewDihedral

SpecConnect == InitConnect /\ [][NextConnect]_vars

(***************************************************************************)
(* Properties of connect.rs, checked under SpecConnect                     *)
(***************************************************************************)
\* C1: for every (a, b, c, d) with a # b, b # c, c # d, Dihedral::new(a, b, c, d)
\* equals Dihedral::new(d, c, b, a), also when max(a, b) = max(c, d)
DihedralReversalInvariant ==
    (term.call = "Dihedral::new" /\ term.value.type = "Dihedral")
        => term.value = Dihedral_new(term.args[4], term.args[3],
                                     term.args[2], term.args[1])

\* C2: for a # b, Bond::new(a, b) equals Bond::new(b, a), its i is the
\* smaller and its j the larger of a and b, and i < j in every Bond
BondOrderIndependent ==
    term.call = "Bond::new" =>
        LET a == term.args[1]
            b == term.args[2]
        IN  /\ a # b =>
                /\ term.value.type = "Bond"
                /\ term.value = Bond_new(b, a)
                /\ term.value.i = (IF a < b THEN a ELSE b)
                /\ term.value.j = (IF a < b THEN b ELSE a)
            /\ term.value.type = "Bond" => term.value.i < term.value.j

\* C2 witness: the Bond::new(2, 1) of the test of connect.rs
BondWitness ==
    /\ term.call = "Bond::new"
    /\ term.args = <<2, 1>>
    /\ term.value.type = "Bond"

\* C3: for pairwise distinct (a, b, c), Angle::new(a, b, c) equals
\* Angle::new(c, b, a), its j is b, and its ends are i = min(a, c) < k = max(a, c)
AngleEndsOrdered ==
    term.call = "Angle::new" =>
        LET a == term.args[1]
            b == term.args[2]
            c == term.args[3]
        IN  (a # b /\ a # c /\ b # c) =>
                /\ term.value.type = "Angle"
                /\ term.value = Angle_new(c, b, a)
                /\ term.value.j = b
                /\ term.value.i = (IF a < c THEN a ELSE c)
                /\ term.value.k = (IF a < c THEN c ELSE a)
                /\ term.value.i < term.value.k

\* C3 witness: an angle whose vertex is the largest index and whose ends
\* come in descending order
AngleWitness ==
    /\ term.call = "Angle::new"
    /\ term.args = <<2, 3, 0>>
    /\ term.value.type = "Angle"

(***************************************************************************)
(* Properties of interactions.rs, checked under Spec                       *)
(***************************************************************************)
ListSections == {"pairs", "bonds", "angles", "dihedrals"}

\* the registration calls a section makes
SectionCalls(name) ==
    CASE name = "pairs" -> {"add_pair_interaction",
                            "add_pair_interaction_with_restriction"}
      [] name = "bonds" -> {"add_bond_interaction"}
      [] name = "angles" -> {"add_angle_interaction"}
      [] name = "dihedrals" -> {"add_dihedral_interaction"}
      [] name = "coulomb" -> {"set_coulomb_interaction"}

\* how many of the calls fns the System received
Count(fns) ==
    Cardinality({p \in 1..Len(system.interactions) :
                    system.interactions[p].fn \in fns})

LastCall == system.interactions[Len(system.interactions)]

\* the names an `atoms` list of the section must hold
AtomsCount(name) == IF name \in {"pairs", "bonds"} THEN 2
                    ELSE IF name = "angles" THEN 3 ELSE 4

Failed == result.state = "err"

\* the last iteration of the loop of section name registered node
Registered(name) ==
    /\ pc = name /\ result = Running
    /\ idx >= 1 /\ node = Records(name)[idx]

\* the last iteration of the loop of section name failed on node
FailedOn(name) ==
    /\ pc = name /\ Failed
    /\ idx < Len(Records(name)) /\ node = Records(name)[idx + 1]

\* node is the record the loop of section name has just looked at
Looked(name) == Registered(name) \/ FailedOn(name)

\* read_coulomb has been through the solver and the restriction of node,
\* the coulomb record
LookedCoulomb ==
    /\ pc \in {"coulomb", "charges"}
    /\ is_hash(Get(doc, "coulomb"))
    /\ node = Get(doc, "coulomb")

\* the record that failed registered nothing: the section has made one
\* call for each record before it and no other
NothingRegistered(name) == Count(SectionCalls(name)) = idx

\* the `atoms` list of node is as the section wants it
AtomsGood(name) ==
    /\ as_vec(Get(node, "atoms")).some
    /\ Len(Get(node, "atoms").a) = AtomsCount(name)
    /\ \A p \in 1..AtomsCount(name) : as_str(Get(node, "atoms").a[p]).some

\* C4: when the function returns the error of record k of a list section,
\* none of the records 0..k-1 of that section is registered
NoPartialRegistration ==
    \A name \in ListSections :
        FailedOn(name) => Count(SectionCalls(name)) = 0

Assigned == {e \in 1..Len(Charges) : e <= idx}

\* C6: each entry of the charges mapping whose name n >= 1 particles have
\* sets the charge of exactly those particles, the others keep theirs; an
\* entry whose name no particle has is a configuration error
ChargesAssigned ==
    pc = "charges" =>
        /\ \A e \in Assigned :
              /\ as_str(Charges[e][1]).some /\ as_f64(Charges[e][2]).some
              /\ \E p \in 1..Len(system.particles) :
                    system.particles[p].name = Charges[e][1].s
              /\ \A p \in 1..Len(system.particles) :
                    system.particles[p].name = Charges[e][1].s
                        => system.particles[p].charge = Charges[e][2].x
        /\ \A p \in 1..Len(system.particles) :
              (\A e \in Assigned : Charges[e][1].s # system.particles[p].name)
                  => system.particles[p].charge = 0
        /\ (Failed /\ as_str(Charges[idx + 1][1]).some
            /\ as_f64(Charges[idx + 1][2]).some) =>
              /\ \A p \in 1..Len(system.particles) :
                    system.particles[p].name # Charges[idx + 1][1].s
              /\ result.err.kind = "Config"
              /\ result.err.text = "No particle with the name {} was found"
              /\ result.err.arg = Charges[idx + 1][1].s
        /\ result.state = "ok" => idx = Len(Charges)

\* C6 witness: two entries assigned, to two particles of different names
ChargesAssignedWitness ==
    /\ pc = "charges" /\ result.state = "ok" /\ idx = 2
    /\ Len(system.particles) = 2
    /\ system.particles[1].name # system.particles[2].name
    /\ system.particles[1].charge # system.particles[2].charge

\* the restriction sub-record of node is a Scale14 with a real scaling
Scale14Given ==
    /\ is_hash(Get(node, "restriction"))
    /\ as_str(Get(Get(node, "restriction"), "type")).some
    /\ to_lowercase(Get(Get(node, "restriction"), "type").s) = Str_scale14
    /\ as_f64(Get(Get(node, "restriction"), "scaling")).some

ScalingGiven == Get(Get(node, "restriction"), "scaling").x

ScalingRangeError ==
    Config("Scaling parameter for Scale14 restriction must be between 0 and 1", <<>>)

\* C7: a Scale14 restriction is read, with the scaling it was given, if
\* and only if 0.0 <= scaling <= 1.0; outside of it the pair or coulomb
\* record fails with a configuration error and registers nothing
Scale14InRange ==
    /\ \A name \in {"pairs", "bonds"} :
          (Looked(name) /\ AtomsGood(name) /\ Scale14Given) =>
              IF 0 <= ScalingGiven /\ ScalingGiven <= 10
              THEN /\ Failed => result.err # ScalingRangeError
                   /\ Registered("pairs") =>
                        /\ LastCall.fn = "add_pair_interaction_with_restriction"
                        /\ LastCall.restriction =
                              [r |-> "Scale14", scaling |-> ScalingGiven]
              ELSE /\ Failed
                   /\ result.err = ScalingRangeError
                   /\ NothingRegistered(name)
    /\ (LookedCoulomb /\ read_coulomb_potential(node).ok /\ Scale14Given) =>
              IF 0 <= ScalingGiven /\ ScalingGiven <= 10
              THEN /\ pc = "charges"
                   /\ LastCall.fn = "set_coulomb_interaction"
                   /\ LastCall.potential.restriction =
                          [r |-> "Scale14", scaling |-> ScalingGiven]
              ELSE /\ pc = "coulomb"
                   /\ Failed
                   /\ result.err = ScalingRangeError
                   /\ Count(SectionCalls("coulomb")) = 0

\* C7 witness: a pair record that is right but for a scaling of 1.1
Scale14Witness ==
    /\ FailedOn("pairs") /\ AtomsGood("pairs") /\ Scale14Given
    /\ ScalingGiven = 11
    /\ read_pair_potential(node).ok
    /\ result.err = ScalingRangeError

WrongSizeText(name) ==
    CASE name \in {"pairs", "bonds"} ->
           "Wrong size for 'atoms' section in pair potentials. Should be 2, is {}"
      [] name = "angles" ->
           "Wrong size for 'atoms' section in angle potentials. Should be 3, is {}"
      [] name = "dihedrals" ->
           "Wrong size for 'atoms' section in dihedral potentials. Should be 4, is {}"

\* the decimal digit of a size below ten, as ASCII
Digit(n) == <<48 + n>>

\* C8: a record whose `atoms` list has the wrong length fails with a
\* configuration error naming the length it has, whatever its other
\* fields, and registers nothing
WrongAtomsSize ==
    \A name \in ListSections :
        (Looked(name) /\ as_vec(Get(node, "atoms")).some
         /\ Len(Get(node, "atoms").a) # AtomsCount(name)) =>
            /\ Failed
            /\ result.err.kind = "Config"
            /\ result.err.text = WrongSizeText(name)
            /\ result.err.arg = Digit(Len(Get(node, "atoms").a))
            /\ NothingRegistered(name)

\* C8 witness: an angle record of four atoms whose type is unknown too
WrongAtomsSizeWitness ==
    /\ FailedOn("angles")
    /\ as_vec(Get(node, "atoms")).some
    /\ Len(Get(node, "atoms").a) = 4
    /\ as_str(Get(node, "type")).some
    /\ ~read_angle_potential(node).ok
    /\ result.err.kind = "Config"
    /\ result.err.arg = Digit(4)

\* the type strings the claim lists, lower-cased
Accepted(name) ==
    CASE name \in {"pairs", "bonds"} ->
           {Str_harmonic, Str_lennard_jones, Str_lennardjones, Str_null,
            Str_nullpotential}
      [] name = "angles" ->
           {Str_harmonic, Str_cosine_harmonic, Str_cosineharmonic, Str_null}
      [] name = "dihedrals" ->
           {Str_harmonic, Str_cosine_harmonic, Str_cosineharmonic, Str_null,
            Str_torsion}
      [] name = "coulomb" -> {Str_wolf, Str_ewald}

UnknownTypeText(name) ==
    IF name = "coulomb" THEN "Unknown coulomb solver type '{}'"
    ELSE "Unknown potential type '{}'"

\* the iteration on node got as far as the dispatch on its type
DispatchReached(name) ==
    /\ AtomsGood(name)
    /\ (name \in {"pairs", "bonds"} /\ is_hash(Get(node, "restriction")))
          => read_restriction(Get(node, "restriction")).ok

\* C9: the type of a record is accepted, whatever its case, exactly when
\* its lower-cased form is one of the listed strings of its section; any
\* other type string is a configuration error naming the (lower-cased)
\* string, and registers nothing
TypeDispatch ==
    /\ \A name \in ListSections :
          (Looked(name) /\ as_str(Get(node, "type")).some) =>
              LET typ == to_lowercase(Get(node, "type").s) IN
              IF typ \in Accepted(name)
              THEN (Failed /\ DispatchReached(name) /\ result.err.kind = "Config") =>
                        result.err.text # UnknownTypeText(name)
              ELSE /\ Failed
                   /\ result.err.kind = "Config"
                   /\ NothingRegistered(name)
                   /\ DispatchReached(name) =>
                        result.err = Config(UnknownTypeText(name), typ)
    /\ (LookedCoulomb /\ as_str(Get(node, "type")).some) =>
              LET typ == to_lowercase(Get(node, "type").s) IN
              IF typ \in Accepted("coulomb")
              THEN (Failed /\ result.err.kind = "Config") =>
                        result.err.text # UnknownTypeText("coulomb")
              ELSE /\ pc = "coulomb"
                   /\ Failed
                   /\ result.err = Config(UnknownTypeText("coulomb"), typ)
                   /\ Count(SectionCalls("coulomb")) = 0

\* C9 witness: "Torsion", a dihedral type, given to a pair record
TypeDispatchWitness ==
    /\ FailedOn("pairs") /\ DispatchReached("pairs")
    /\ Get(node, "type") = YString(In_Torsion)
    /\ result.err = Config("Unknown potential type '{}'", Str_torsion)

\* C10: a bonds record is registered by add_bond_interaction, without
\* restriction, also when it has a restriction sub-record; a pairs record
\* by add_pair_interaction_with_restriction and its parsed restriction
\* when it has one, by add_pair_interaction when it has none
BondsNeverRestricted ==
    /\ \A p \in 1..Len(system.interactions) :
          system.interactions[p].fn = "add_bond_interaction"
              => "restriction" \notin DOMAIN system.interactions[p]
    /\ Registered("bonds") =>
          /\ LastCall.fn = "add_bond_interaction"
          /\ Count(SectionCalls("bonds")) = idx
    /\ Registered("pairs") =>
          IF is_hash(Get(node, "restriction"))
          THEN /\ LastCall.fn = "add_pair_interaction_with_restriction"
               /\ Ok(LastCall.restriction) = read_restriction(Get(node, "restriction"))
          ELSE /\ LastCall.fn = "add_pair_interaction"
               /\ "restriction" \notin DOMAIN LastCall

\* C10 witness: a bonds record with a restriction sub-record, registered
BondsNeverRestrictedWitness ==
    /\ Registered("bonds")
    /\ is_hash(Get(node, "restriction"))
    /\ read_restriction(Get(node, "restriction")).ok
    /\ LastCall.fn = "add_bond_interaction"

\* the computation sub-record of node is written as the comment of
\* read_interactions shows it: type table, numpoints an integer, max a length
DocumentedTable ==
    /\ is_hash(Get(node, "computation"))
    /\ as_str(Get(Get(node, "computation"), "type")).some
    /\ to_lowercase(Get(Get(node, "computation"), "type").s) = Str_table
    /\ as_i64(Get(Get(node, "computation"), "numpoints")).some
    /\ as_str(Get(Get(node, "computation"), "max")).some
    /\ units_from_str(Get(Get(node, "computation"), "max").s).ok

\* C11: a pairs record that is right and whose computation is written as
\* documented (type: table, numpoints, max) is read without error and
\* registers a tabulated pair potential
DocumentedTableAccepted ==
    (Looked("pairs") /\ DispatchReached("pairs") /\ read_pair_potential(node).ok
     /\ DocumentedTable) =>
        /\ ~Failed
        /\ LastCall.potential.type = "TableComputation"

\* node is a coulomb record of type ewald whose kmax is a negative integer
NegativeKmax ==
    /\ LookedCoulomb
    /\ as_str(Get(node, "type")).some
    /\ to_lowercase(Get(node, "type").s) = Str_ewald
    /\ as_i64(Get(node, "kmax")).some
    /\ Get(node, "kmax").n < 0

NegativeKmaxError ==
    Config("'kmax' can not be negative in Ewald potential", <<>>)

\* C12 as stated: an ewald record with a negative kmax always fails with
\* a configuration error, whatever its other fields, and
\* set_coulomb_interaction is not called
NegativeKmaxAlwaysConfig ==
    NegativeKmax =>
        /\ Failed
        /\ result.err.kind = "Config"
        /\ Count(SectionCalls("coulomb")) = 0

\* C12 amended: an ewald record with a negative kmax always fails and
\* set_coulomb_interaction is not called; the error is the configuration
\* error of kmax when cutoff is a length that parses, the configuration
\* error of a missing parameter when cutoff is no string, and the unit
\* parsing error of cutoff when cutoff is a string that does not parse
NegativeKmaxFails ==
    NegativeKmax =>
        /\ Failed
        /\ pc = "coulomb"
        /\ Count(SectionCalls("coulomb")) = 0
        /\ IF ~as_str(Get(node, "cutoff")).some
           THEN result.err = Config("Missing 'cutoff' or 'kmax' parameter in Ewald potential", <<>>)
           ELSE IF units_from_str(Get(node, "cutoff").s).ok
           THEN result.err = NegativeKmaxError
           ELSE result.err = UnitParsing

\* C12 witness: kmax: -1 with a cutoff that parses, and with a restriction
NegativeKmaxWitness ==
    /\ NegativeKmax
    /\ Get(node, "cutoff") = YString(Str_10_A)
    /\ is_hash(Get(node, "restriction"))
    /\ result.state = "err"
    /\ result.err = NegativeKmaxError

\* C13: Bond::new aborts exactly when first = second, Angle::new exactly
\* when two of its three arguments are equal, Dihedral::new exactly when
\* first = second, second = third or third = fourth; with first = fourth
\* and no such pair Dihedral::new returns a Dihedral
ConstructorsAbort ==
    /\ term.call = "Bond::new" =>
          /\ term.value = Aborted <=> term.args[1] = term.args[2]
          /\ term.value # Aborted => term.value.type = "Bond"
    /\ term.call = "Angle::new" =>
          /\ term.value = Aborted <=>
                \/ term.args[1] = term.args[2]
                \/ term.args[1] = term.args[3]
                \/ term.args[2] = term.args[3]
          /\ term.value # Aborted => term.value.type = "Angle"
    /\ term.call = "Dihedral::new" =>
          /\ term.value = Aborted <=>
                \/ term.args[1] = term.args[2]
                \/ term.args[2] = term.args[3]
                \/ term.args[3] = term.args[4]
          /\ term.value # Aborted => term.value.type = "Dihedral"

\* C13 witness: Dihedral::new(1, 0, 2, 1), first = fourth, returns a value
ConstructorsAbortWitness ==
    /\ term.call = "Dihedral::new"
    /\ term.args = <<1, 0, 2, 1>>
    /\ term.value.type = "Dihedral"

\* C15: a term the constructors return is what its constructor gives on
\* the term's own fields: Bond::new(b.i, b.j) = b, Angle::new(a.i, a.j, a.k) = a,
\* Dihedral::new(d.i, d.j, d.k, d.m) = d
CanonicalIdempotent ==
    /\ term.value.type = "Bond" =>
          Bond_new(term.value.i, term.value.j) = term.value
    /\ term.value.type = "Angle" =>
          Angle_new(term.value.i, term.value.j, term.value.k) = term.value
    /\ term.value.type = "Dihedral" =>
          Dihedral_new(term.value.i, term.value.j, term.value.k, term.value.m)
              = term.value

\* the sections in the order the claim gives
SectionOrder == <<"pairs", "bonds", "angles", "dihedrals", "coulomb">>

Rank(name) == CHOOSE r \in 1..Len(SectionOrder) : SectionOrder[r] = name

\* the section a registration call belongs to, as its place in SectionOrder
CallRank(call) ==
    CHOOSE r \in 1..Len(SectionOrder) : call.fn \in SectionCalls(SectionOrder[r])

\* the section read_interactions_string is in; the charges are part of
\* the coulomb section
Current == IF pc = "charges" THEN "coulomb" ELSE pc

\* the number of records of a section of the document
RecordCount(name) ==
    IF name = "coulomb"
    THEN (IF is_hash(Get(doc, "coulomb")) THEN 1 ELSE 0)
    ELSE Len(Records(name))

\* what the iteration on record n of a list section returns
RecordResult(name, n) ==
    CASE name = "pairs" -> read_pairs_iter(system, n, TRUE).result
      [] name = "bonds" -> read_pairs_iter(system, n, FALSE).result
      [] name = "angles" -> read_angles_iter(system, n).result
      [] name = "dihedrals" -> read_dihedrals_iter(system, n).result

\* C14: the sections are read in the order pairs, bonds, angles,
\* dihedrals, coulomb; when a section fails, the calls of the sections
\* before it are in the System, one per record, no section after it has
\* made a call, and no record of a section before it is in error
SectionsInOrder ==
    /\ \A p, q \in 1..Len(system.interactions) :
          p < q => CallRank(system.interactions[p]) <= CallRank(system.interactions[q])
    /\ \A name \in ListSections \cup {"coulomb"} :
          Rank(name) > Rank(Current) => Count(SectionCalls(name)) = 0
    /\ Failed =>
          \A name \in ListSections :
              Rank(name) < Rank(Current) =>
                  /\ Count(SectionCalls(name)) = RecordCount(name)
                  /\ \A r \in 1..RecordCount(name) :
                        RecordResult(name, Records(name)[r]).ok
    /\ (Failed /\ pc \in ListSections) =>
          /\ \A r \in 1..idx : RecordResult(pc, Records(pc)[r]).ok
          /\ RecordResult(pc, Records(pc)[idx + 1]) = Err(result.err)

\* C14 witness: the angles fail after a pair and a bond were registered,
\* with dihedrals and a coulomb record still to read
SectionsInOrderWitness ==
    /\ Failed /\ pc = "angles"
    /\ Count(SectionCalls("pairs")) >= 1
    /\ Count(SectionCalls("bonds")) >= 1
    /\ RecordCount("dihedrals") >= 1
    /\ RecordCount("coulomb") = 1
    /\ Len(system.interactions) = RecordCount("pairs") + RecordCount("bonds") + idx

\* a charge has been assigned
ChargeChanged ==
    \E p \in 1..Len(system.particles) : system.particles[p].charge # 0

\* C16: set_coulomb_interaction is called once the solver and the
\* restriction, if any, are read, and before any charge is assigned; when
\* the charges then fail, the coulomb interaction is installed and the
\* entries before the failing one have changed the charges
SolverBeforeCharges ==
    /\ Count(SectionCalls("coulomb")) = 1 =>
          /\ read_coulomb_potential(Get(doc, "coulomb")).ok
          /\ is_hash(Get(Get(doc, "coulomb"), "restriction")) =>
                read_restriction(Get(Get(doc, "coulomb"), "restriction")).ok
    /\ pc = "charges" <=> Count(SectionCalls("coulomb")) = 1
    /\ ChargeChanged => pc = "charges"
    /\ (pc = "charges" /\ Failed) =>
          /\ idx < Len(Charges)
          /\ ~assign_charges_iter(system, Charges[idx + 1]).result.ok
          /\ \A e \in 1..idx :
                /\ \E p \in 1..Len(system.particles) :
                      system.particles[p].name = Charges[e][1].s
                /\ \A p \in 1..Len(system.particles) :
                      system.particles[p].name = Charges[e][1].s
                          => system.particles[p].charge = Charges[e][2].x

\* C16 witness: the second entry of the charges names no particle; the
\* solver is installed and the first entry has changed a charge
SolverBeforeChargesWitness ==
    /\ pc = "charges" /\ Failed /\ idx = 1
    /\ result.err.kind = "Config"
    /\ result.err.text = "No particle with the name {} was found"
    /\ LastCall.fn = "set_coulomb_interaction"
    /\ ChargeChanged

=============================================================================
